---------------------------- MODULE Spec2Model ----------------------------
(***************************************************************************)
(* Syllablaze: the recording pipeline of blaze/recorder.py (AudioRecorder) *)
(* and the orchestration of blaze/main.py (ApplicationTrayIcon).           *)
(*                                                                         *)
(* Threads.  The Qt main thread runs every tray handler and every          *)
(* AudioRecorder method; PortAudio runs AudioRecorder._callback on its own *)
(* thread, one per running stream; the transcriber finishes on a worker    *)
(* and reports back to the main thread.                                    *)
(*                                                                         *)
(* Linking.  main.py names four members of the recorder differently from   *)
(* recorder.py: _stop_recording (stop_recording), recording_completed      *)
(* (recording_finished), recording_failed (recording_error) and            *)
(* volume_changing (volume_updated); likewise blaze/constants.py does not  *)
(* define the sample-rate constants recorder.py imports.  The model links  *)
(* each name of main.py to the member of recorder.py it stands for, and    *)
(* takes WHISPER_SAMPLE_RATE from recorder.py's own use of it (16000 Hz).  *)
(*                                                                         *)
(* Signals.  recording_finished and recording_error are emitted on the     *)
(* main thread, so their slots run synchronously inside emit (Qt direct    *)
(* connection); volume_updated is emitted on the audio thread and is       *)
(* queued to the main thread.                                              *)
(***************************************************************************)
EXTENDS Integers, Sequences, FiniteSets, TLC

\* ---- bounds of the model
MaxStreams == 2      \* PortAudio streams that can be open at once
MaxBlocks == 2       \* blocks captured per recording
MaxInflight == 2     \* waveforms handed to the transcriber and not yet answered
MaxNest == 1         \* nested event loops (QApplication.processEvents)
MaxCleanups == 2     \* calls of cleanup in one recording attempt
MaxProcs == 2        \* processes of the application started side by side

\* ---- program constants
WHISPER_SAMPLE_RATE == 16000

StreamIds == 1..MaxStreams
DeviceRates == {WHISPER_SAMPLE_RATE, 44100}
MicSettings == {"None", "valid", "invalid", "garbage"}
\* mic_index = int(mic_index) if mic_index is not None else None; None when int() raises.
MicIndex(m) == IF m = "garbage" THEN "None" ELSE m
\* get_device_info_by_index(mic_index) raises for an index that names no device;
\* otherwise it, or get_default_input_device_info() for None, gives a device.
DeviceLookup(idx) == IF idx = "invalid" THEN "raises" ELSE "device"
Modes == {"whisper", "device"}

VARIABLES
  recording,            \* ApplicationTrayIcon.recording
  progress_window,      \* "None", or the window's current_state: "recording" | "processing"
  pw_visible,           \* the progress window is shown
  record_action,        \* text of the menu's record action
  icon,                 \* "normal" | "recording"
  settings_visible,     \* the settings window is shown
  model,                \* transcriber.model is loaded
  is_recording,         \* AudioRecorder.is_recording
  stream,               \* AudioRecorder.stream: 0 (None) or a stream id
  frames,               \* AudioRecorder.frames: the blocks, their bytes left out:
                        \* "block", or "old_block" for one captured before the
                        \* recording in progress was started
  current_sample_rate,  \* 0 while the attribute is not set
  current_device_info,  \* 0 (None) or the device's default sample rate
  pa,                   \* PortAudio: stream id -> "free" | "open" | "active"
  cb,                   \* the callback thread of each stream: "idle" | "checked" (past
                        \* the test of is_recording, its append to come) | "stale" (the
                        \* same, with a block captured before the recording in progress
                        \* was started)
  pc,                   \* main thread: "idle" | "stopping" (inside stop_recording, after the flag flip)
  ctx,                  \* what called the stop_recording in progress: "top" | "start_fail"
  closing,              \* _close_progress_window calls suspended in processEvents
  inflight,             \* waveforms the transcriber is working on
  volq,                 \* volume_updated events are queued for the main thread
  log,                  \* what happened in the current recording attempt, in order
  test_stream,          \* AudioRecorder.test_stream: 0 (None) or a stream id
  is_testing,           \* AudioRecorder.is_testing
  audio,                \* AudioRecorder.audio: the PyAudio instance is there (not None)
  recorder,             \* ApplicationTrayIcon.recorder is there (not None)
  meter,                \* the progress window that exists has been handed a volume
                        \* (ProgressWindow.update_volume)
  quit_pc,              \* quit_application: "none" (not called), the step it is at, or
                        \* how the process ends: "quit" | "exit1"
  in_data,              \* _callback's in_data as int16 samples (left empty where the
                        \* bytes of the blocks are left out)
  volume,               \* the value _callback hands to volume_updated.emit for in_data
  waveform,             \* what _process_recording made of frames (where the samples of
                        \* the blocks are given)
  lock_path,            \* the file at LOCK_FILE_PATH: 0 (no file) or a file id
  flocked,              \* file id -> the process whose open file holds the flock, or 0
  test_lock,            \* process -> the file its test_lock is open on, or 0
  LOCK_FILE,            \* process -> the file its LOCK_FILE is open on, or 0 (None)
  lock_pc               \* process -> where it is in check_already_running, in its run
                        \* or in the release of the lock

\* The lock file and the processes around it.
lockVars == <<lock_path, flocked, test_lock, LOCK_FILE, lock_pc>>

vars == <<recording, progress_window, pw_visible, record_action, icon, settings_visible,
          model, is_recording, stream, frames, current_sample_rate, current_device_info,
          pa, cb, pc, ctx, closing, inflight, volq, log, in_data, volume, waveform,
          test_stream, is_testing, audio, recorder, quit_pc, meter, lockVars>>

\* The state as one record: a method of the program is an operator from record to record,
\* so that a synchronous chain of calls is a composition.
Cur ==
  [recording |-> recording, progress_window |-> progress_window, pw_visible |-> pw_visible,
   record_action |-> record_action, icon |-> icon, settings_visible |-> settings_visible,
   model |-> model, is_recording |-> is_recording, stream |-> stream, frames |-> frames,
   current_sample_rate |-> current_sample_rate, current_device_info |-> current_device_info,
   pa |-> pa, cb |-> cb, pc |-> pc, ctx |-> ctx, closing |-> closing, inflight |-> inflight,
   volq |-> volq, log |-> log, test_stream |-> test_stream,
   is_testing |-> is_testing, audio |-> audio,
   recorder |-> recorder, quit_pc |-> quit_pc, meter |-> meter]

\* The variables of Cur.
programVars ==
  <<recording, progress_window, pw_visible, record_action, icon, settings_visible,
    model, is_recording, stream, frames, current_sample_rate, current_device_info,
    pa, cb, pc, ctx, closing, inflight, volq, log, test_stream, is_testing, audio,
    recorder, quit_pc, meter>>

\* A volume is written as the mean of squares it is the root of: [num, den] stands for
\* sqrt(num / den) / 32768, num a number in two digits of base 65536 (<<high, low>>).
\* No value emitted yet:
NoVolume == [num |-> <<0, 0>>, den |-> 0]

\* A waveform is written as its samples' numerators over a common denominator: sample i
\* is num[i] / (den * 32768).  status: "none" (nothing processed yet), "finished"
\* (emitted with recording_finished) or "error" (_process_recording raised).
NoWaveform == [status |-> "none", num |-> <<>>, den |-> 1]

Commit(s) ==
  /\ recording' = s.recording
  /\ progress_window' = s.progress_window
  /\ pw_visible' = s.pw_visible
  /\ record_action' = s.record_action
  /\ icon' = s.icon
  /\ settings_visible' = s.settings_visible
  /\ model' = s.model
  /\ is_recording' = s.is_recording
  /\ stream' = s.stream
  /\ frames' = s.frames
  /\ current_sample_rate' = s.current_sample_rate
  /\ current_device_info' = s.current_device_info
  /\ pa' = s.pa
  /\ cb' = s.cb
  /\ pc' = s.pc
  /\ ctx' = s.ctx
  /\ closing' = s.closing
  /\ inflight' = s.inflight
  /\ volq' = s.volq
  /\ log' = s.log
  /\ test_stream' = s.test_stream
  /\ is_testing' = s.is_testing
  /\ audio' = s.audio
  /\ recorder' = s.recorder
  /\ quit_pc' = s.quit_pc
  /\ meter' = (s.meter /\ s.progress_window # "None")
  /\ UNCHANGED <<in_data, volume, waveform, lockVars>>

NoSession ==
  /\ recording = FALSE
  /\ progress_window = "None"
  /\ pw_visible = FALSE
  /\ record_action = "Start Recording"
  /\ icon = "normal"
  /\ settings_visible = FALSE
  /\ model \in BOOLEAN
  /\ is_recording = FALSE
  /\ stream = 0
  /\ current_device_info = 0
  /\ pa = [i \in StreamIds |-> "free"]
  /\ cb = [i \in StreamIds |-> "idle"]
  /\ pc = "idle"
  /\ ctx = "top"
  /\ closing = 0
  /\ inflight = 0
  /\ volq = FALSE
  /\ log = <<>>
  /\ test_stream = 0
  /\ is_testing = FALSE
  /\ audio = TRUE
  /\ recorder = TRUE
  /\ quit_pc = "none"
  /\ meter = FALSE

Procs == 1..MaxProcs
\* One file per process that can hold one open, and the one at the path.
Files == 1..(MaxProcs + 1)
\* What LOCK_FILE holds after LOCK_FILE.close(): a file object that is closed (and,
\* like every file object, true in a test).
ClosedFile == MaxProcs + 2

\* No process of the application has been started and there is no lock file.
NoLock ==
  /\ lock_path = 0
  /\ flocked = [f \in Files |-> 0]
  /\ test_lock = [p \in Procs |-> 0]
  /\ LOCK_FILE = [p \in Procs |-> 0]
  /\ lock_pc = [p \in Procs |-> "off"]

Constructed == NoSession /\ frames = <<>> /\ current_sample_rate = 0 /\ NoLock

Init == Constructed /\ in_data = <<>> /\ volume = NoVolume /\ waveform = NoWaveform

Logged(s, e) == [s EXCEPT !.log = Append(@, e)]

Has(l, e) == \E i \in 1..Len(l) : l[i] = e

Count(l, e) == Cardinality({i \in 1..Len(l) : l[i] = e})


\* ------------------------------------------------------------------------
\* stop_recording without its guard on is_recording: the variant C6 is set against.
StopRecordingBeginNoGuard(s) ==
  [s EXCEPT !.is_recording = FALSE, !.pc = "stopping"]

\* AudioRecorder.stop_recording, first part: the guard and the flag flip.  The main
\* thread then calls stream.stop_stream(), which blocks until the callback in progress
\* has returned: the rest of the method is StopRecordingRest.
StopRecordingBegin(s) ==
  IF ~s.is_recording THEN s
  ELSE [s EXCEPT !.is_recording = FALSE, !.pc = "stopping"]

\* ApplicationTrayIcon.toggle_recording, the branch taken when tray.recording is true.
\* stop_recording catches every Exception itself, so the handler around the call
\* (main.py 201-206) never runs.
ToggleStop(s) ==
  LET a == [s EXCEPT !.recording = FALSE,
                     !.record_action = "Start Recording",
                     !.icon = "normal",
                     !.progress_window = IF @ # "None" THEN "processing" ELSE @]
  IN IF a.recorder THEN StopRecordingBegin(a) ELSE a

\* ApplicationTrayIcon._stop_recording: with tray.recording true, toggle_recording
\* skips its model check (which needs not recording) and takes the stop branch.
TrayStopRecording(s) ==
  IF ~s.recording THEN s ELSE ToggleStop(s)

\* ProgressWindow.close() followed by progress_window = None.
DropProgressWindow(s) ==
  IF s.progress_window # "None"
  THEN [s EXCEPT !.progress_window = "None", !.pw_visible = FALSE]
  ELSE s

\* handle_recording_error without its call of _stop_recording: the variant C8 is set
\* against.
HandleRecordingErrorNoStop(s) == DropProgressWindow(Logged(s, "note"))

\* ApplicationTrayIcon.handle_recording_error, the slot of recording_error.  When the
\* stop it triggers enters stop_recording (pc = "stopping"), the rest of the handler
\* runs after stop_recording has returned (ctx = "start_fail": only start_recording
\* emits the error while is_recording is still true).
HandleRecordingError(s) ==
  LET a == Logged(s, "note")
      b == TrayStopRecording(a)
  IN IF b.pc = "stopping" THEN [b EXCEPT !.ctx = "start_fail"]
     ELSE DropProgressWindow(b)

\* recording_error.emit(...)
EmitError(s) == HandleRecordingError(Logged(s, "error"))

\* _handle_recording_completed whose except clause only shows the notification and
\* leaves the progress window open: the variant C36 is set against.
HandleRecordingCompletedKeepsWindow(s, x) ==
  LET a == [s EXCEPT !.progress_window = IF @ # "None" THEN "processing" ELSE @]
  IN IF ~a.model THEN Logged(a, "note_transcribe")
     ELSE IF x.submitOk
          THEN [Logged(a, "submit") EXCEPT !.inflight = @ + 1]
          ELSE Logged(Logged(a, "submit"), "note_transcribe")

\* ApplicationTrayIcon._handle_recording_completed, the slot of recording_finished.
\* x.submitOk: transcribe_audio returns (the worker starts) rather than raises.
HandleRecordingCompleted(s, x) ==
  LET a == [s EXCEPT !.progress_window = IF @ # "None" THEN "processing" ELSE @]
      failed(t) == Logged(DropProgressWindow(t), "note_transcribe")
  IN IF ~a.model THEN failed(a)
     ELSE IF x.submitOk
          THEN [Logged(a, "submit") EXCEPT !.inflight = @ + 1]
          ELSE failed(Logged(a, "submit"))

\* _process_recording emitting recording_finished twice: the variant C11 is set
\* against.
ProcessRecordingTwice(s, x) ==
  IF x.procOk
  THEN HandleRecordingCompleted(
         Logged(HandleRecordingCompleted(Logged(s, "finished"), x), "finished"), x)
  ELSE EmitError(Logged(s, "process_raised"))

\* AudioRecorder._process_recording: joins frames, resamples, normalises and emits
\* recording_finished; x.procOk: none of that raises.
ProcessRecording(s, x) ==
  IF x.procOk
  THEN HandleRecordingCompleted(Logged(s, "finished"), x)
  ELSE EmitError(Logged(s, "process_raised"))

\* stream.stop_stream(): x.stopOk, or it raises and the stream is stopped or
\* (x.stays) still running.
StopStream(s, x) ==
  IF x.stopOk
  THEN Logged([s EXCEPT !.pa[s.stream] = IF @ = "active" THEN "open" ELSE @], "stop_stream")
  ELSE Logged([s EXCEPT !.pa[s.stream] = IF @ = "active" /\ ~x.stays THEN "open" ELSE @],
              "stop_stream_raised")

\* stream.close() and stream = None: x.closeOk, or close raises and the handle stays.
CloseStream(s, x) ==
  IF x.closeOk
  THEN Logged([s EXCEPT !.pa[s.stream] = "free", !.stream = 0], "close")
  ELSE Logged(s, "close_raised")

\* stop_recording without stream.close() and stream = None: the variant C1 is set
\* against.
StopRecordingRestNoClose(s, x) ==
  LET a == IF s.stream # 0 THEN StopStream(s, x) ELSE s
      raised == s.stream # 0 /\ ~x.stopOk
  IN IF raised THEN EmitError(a)
     ELSE IF a.frames = <<>> THEN EmitError(Logged(a, "empty"))
     ELSE ProcessRecording(a, x)

\* stop_recording without its test for an empty frames: the variant C12 is set
\* against.
StopRecordingRestNoEmptyTest(s, x) ==
  LET a == IF s.stream # 0 THEN StopStream(s, x) ELSE s
      b == IF s.stream # 0 /\ x.stopOk THEN CloseStream(a, x) ELSE a
      raised == s.stream # 0 /\ (~x.stopOk \/ ~x.closeOk)
  IN IF raised THEN EmitError(b) ELSE ProcessRecording(b, x)

\* AudioRecorder.stop_recording from the try on.
StopRecordingRest(s, x) ==
  LET a == IF s.stream # 0 THEN StopStream(s, x) ELSE s
      b == IF s.stream # 0 /\ x.stopOk THEN CloseStream(a, x) ELSE a
      raised == s.stream # 0 /\ (~x.stopOk \/ ~x.closeOk)
  IN IF raised THEN EmitError(b)
     ELSE IF b.frames = <<>> THEN EmitError(Logged(b, "empty"))
     ELSE ProcessRecording(b, x)

\* The rest of what was suspended when stop_recording began: nothing for a stop the
\* user asked for; for the stop that handle_recording_error triggered inside
\* start_recording's except, the end of that handler and then is_recording = False.
AfterStop(s, c) ==
  IF c = "start_fail"
  THEN [DropProgressWindow(s) EXCEPT !.is_recording = FALSE, !.ctx = "top"]
  ELSE s

\* ------------------------------------------------------------------------
FreeId(s) ==
  IF \E i \in StreamIds : s.pa[i] = "free"
  THEN CHOOSE i \in StreamIds : s.pa[i] = "free" /\ \A j \in StreamIds : s.pa[j] = "free" => i <= j
  ELSE 0

\* self.stream = self.audio.open(rate=...); self.current_sample_rate = rate
OpenStream(s, rate) ==
  Logged([s EXCEPT !.stream = FreeId(s), !.pa[FreeId(s)] = "open",
                   !.current_sample_rate = rate], "opened")

\* start_recording's except without the emit of recording_error: the variant C30 is
\* set against.
StartFailedSilently(s) ==
  [Logged(s, "start_failed") EXCEPT !.is_recording = FALSE]

\* start_recording's except: emit recording_error, then is_recording = False.
StartFailed(s) ==
  LET h == EmitError(Logged(s, "start_failed"))
  IN IF h.pc = "stopping" THEN h ELSE [h EXCEPT !.is_recording = FALSE]

\* self.stream.start_stream()
StartStream(s, e) ==
  IF e.startOk THEN [s EXCEPT !.pa[s.stream] = "active"] ELSE StartFailed(s)

\* The opens with a fallback that stores the target rate although the stream was
\* opened at the device's default rate: the variant C15 is set against.
OpenAndStartKeepsTarget(s, e) ==
  LET b == [s EXCEPT !.current_device_info = e.rate]
      can == FreeId(s) # 0
      target == Logged(b, "try_target")
      default == Logged(IF e.mode = "whisper" THEN target
                        ELSE Logged(b, "use_device_default"), "try_default")
  IN IF e.mode = "whisper" /\ e.open16 /\ can
     THEN StartStream(OpenStream(target, WHISPER_SAMPLE_RATE), e)
     ELSE IF e.openDef /\ can
     THEN StartStream(OpenStream(default, IF e.mode = "whisper" THEN WHISPER_SAMPLE_RATE
                                          ELSE e.rate), e)
     ELSE StartFailed(default)

\* The opens that try the target rate first whatever the mode: the variant C16 is set
\* against.
OpenAndStartTargetFirst(s, e) ==
  LET b == [s EXCEPT !.current_device_info = e.rate]
      can == FreeId(s) # 0
      m == IF e.mode = "whisper" THEN b ELSE Logged(b, "use_device_default")
      target == Logged(m, "try_target")
      default == Logged(target, "try_default")
  IN IF e.open16 /\ can
     THEN StartStream(OpenStream(target, WHISPER_SAMPLE_RATE), e)
     ELSE IF e.openDef /\ can THEN StartStream(OpenStream(default, e.rate), e)
     ELSE StartFailed(default)

\* start_recording once the device is known: the opens of the sample-rate mode
\* ("try_target": audio.open at WHISPER_SAMPLE_RATE, "try_default": audio.open at the
\* device's defaultSampleRate, "use_device_default": the else branch of the mode test),
\* then start_stream.  An open also fails when PortAudio has no stream left.
OpenAndStart(s, e) ==
  LET b == [s EXCEPT !.current_device_info = e.rate]
      can == FreeId(s) # 0
      target == Logged(b, "try_target")
      default == Logged(IF e.mode = "whisper" THEN target
                        ELSE Logged(b, "use_device_default"), "try_default")
  IN IF e.mode = "whisper" /\ e.open16 /\ can
     THEN StartStream(OpenStream(target, WHISPER_SAMPLE_RATE), e)
     ELSE IF e.openDef /\ can THEN StartStream(OpenStream(default, e.rate), e)
     ELSE StartFailed(default)

\* start_recording that records on the default device when the configured index names
\* no device: the variant C14 is set against.
StartRecordingSubstitute(s, e) ==
  IF s.is_recording THEN s
  ELSE
    LET a == [s EXCEPT !.frames = <<>>, !.is_recording = TRUE, !.log = <<>>,
                       !.cb = [i \in StreamIds |->
                                 IF s.cb[i] = "checked" THEN "stale" ELSE s.cb[i]]]
    IN OpenAndStart(IF e.lookup = "raises" THEN Logged(a, "device_not_found") ELSE a, e)

\* AudioRecorder.start_recording.  e: the mode read, the device lookup, the device found
\* (rate: its defaultSampleRate) and what PortAudio answers.  For an index that names
\* no device get_device_info_by_index raises ("device_not_found").
StartRecording(s, e) ==
  IF s.is_recording THEN s
  ELSE
    LET a == [s EXCEPT !.frames = <<>>, !.is_recording = TRUE, !.log = <<>>,
                       !.cb = [i \in StreamIds |->
                                 IF s.cb[i] = "checked" THEN "stale" ELSE s.cb[i]]]
    IN IF e.lookup = "raises" THEN StartFailed(Logged(a, "device_not_found"))
       ELSE OpenAndStart(a, e)

\* ApplicationTrayIcon.toggle_recording, the branch taken when tray.recording is false.
ToggleStart(s, e) ==
  StartRecording(
    [s EXCEPT !.recording = TRUE,
              !.progress_window = IF @ = "None" THEN "recording" ELSE @,
              !.pw_visible = TRUE,
              !.record_action = "Stop Recording",
              !.icon = "recording"], e)

\* ApplicationTrayIcon.toggle_settings
ToggleSettings(s) == [s EXCEPT !.settings_visible = ~@]

\* toggle_recording without its test of the transcriber's model: the variant C35 is set
\* against.
ToggleRecordingNoModelCheck(s, e) ==
  IF s.recording THEN [ToggleStop(Logged(s, "stop_req")) EXCEPT !.ctx = "top"]
  ELSE ToggleStart(s, e)

\* ApplicationTrayIcon.toggle_recording (on_activate makes the same model check first).
ToggleRecordingOp(s, e) ==
  IF ~s.recording /\ ~s.model THEN ToggleSettings(s)
  ELSE IF s.recording THEN [ToggleStop(Logged(s, "stop_req")) EXCEPT !.ctx = "top"]
  ELSE ToggleStart(s, e)

\* ApplicationTrayIcon._close_progress_window: hide, close, deleteLater, then
\* QApplication.processEvents() (a nested event loop: closing counts them) and only
\* then progress_window = None.
CloseProgressWindow(s) ==
  IF s.progress_window = "None" THEN s
  ELSE IF s.closing < MaxNest
       THEN [s EXCEPT !.pw_visible = FALSE, !.closing = @ + 1]
       ELSE [s EXCEPT !.pw_visible = FALSE, !.progress_window = "None"]

\* ApplicationTrayIcon.handle_transcription_finished: a text that is not empty goes
\* out as a notification, to the system clipboard and to the tooltip (outputs, not
\* state of the pipeline); the window is closed.
HandleTranscriptionFinished(s) == CloseProgressWindow(s)

\* ApplicationTrayIcon.handle_transcription_error: a notification, the tooltip is
\* reset, the window is closed.
HandleTranscriptionError(s) == CloseProgressWindow(s)

\* ------------------------------------------------------------------------
\* What start_recording meets.  An answer that is never asked for (the second open
\* after the first succeeded, start_stream after no open succeeded, anything after the
\* device lookup raised) is fixed to TRUE, so that each course is taken once.
StartEnv ==
  {e \in [lookup : {DeviceLookup(MicIndex(m)) : m \in MicSettings}, mode : Modes, rate : DeviceRates,
          open16 : BOOLEAN, openDef : BOOLEAN, startOk : BOOLEAN] :
     /\ e.lookup = "raises" =>
          (e.mode = "whisper" /\ e.rate = WHISPER_SAMPLE_RATE /\ e.open16 /\ e.openDef)
     /\ e.mode = "device" => e.open16
     /\ (e.mode = "whisper" /\ e.open16 /\ e.lookup # "raises") => e.openDef
     /\ (e.lookup = "raises" \/ ~e.openDef) => e.startOk}
\* What stop_recording meets, each course once: stays is asked only when stop_stream
\* raises, and nothing is asked after a step that raised.
StopEnv ==
  {x \in [stopOk : BOOLEAN, stays : BOOLEAN, closeOk : BOOLEAN,
          procOk : BOOLEAN, submitOk : BOOLEAN] :
     /\ x.stopOk => ~x.stays
     /\ ~x.stopOk => x.closeOk
     /\ ~x.closeOk => x.procOk
     /\ ~x.procOk => x.submitOk}

\* The input devices of the machine do not change their default rate while the
\* application runs: a start meets the rate the last lookup met.
StartEnvNow ==
  {e \in StartEnv :
     (e.lookup # "raises" /\ current_device_info # 0) => e.rate = current_device_info}

\* The toggle does not start: nothing is asked of the device.
NoStart == CHOOSE e \in StartEnv : TRUE

\* ApplicationTrayIcon.on_activate for a left click: toggle_recording when the
\* transcriber has a model, otherwise the message and the settings window.
OnActivate(s, e) ==
  IF s.model THEN ToggleRecordingOp(s, e) ELSE ToggleSettings(s)

\* The user triggers the record action of the menu (toggle_recording), or clicks the
\* tray icon (on_activate).
ToggleRecording ==
  /\ pc = "idle"
  /\ (~recording /\ model) => inflight < MaxInflight
  /\ \E e \in (IF ~recording /\ model THEN StartEnvNow ELSE {NoStart}) :
       \/ Commit(ToggleRecordingOp(Cur, e))
       \/ Commit(OnActivate(Cur, e))

\* The user clicks the progress window's stop button (stop_clicked -> _stop_recording).
StopClicked ==
  /\ pc = "idle"
  /\ progress_window # "None" /\ pw_visible
  /\ Commit(IF recording
            THEN [TrayStopRecording(Logged(Cur, "stop_req")) EXCEPT !.ctx = "top"]
            ELSE TrayStopRecording(Cur))

\* stop_recording goes on once stop_stream has returned: PortAudio lets the callback in
\* progress finish first.
StopRest ==
  /\ pc = "stopping"
  /\ \E x \in StopEnv :
       /\ (stream # 0 /\ x.stopOk) => cb[stream] = "idle"
       /\ Commit(AfterStop(StopRecordingRest([Cur EXCEPT !.pc = "idle"], x), ctx))

\* The in_data of the callback of stream i: captured before it was called.
BlockOf(i) == IF cb[i] = "stale" THEN "old_block" ELSE "block"

\* _callback that goes on to the append whatever the flag: the variant C18 is set
\* against.
CallbackCheckNoFlag(i) ==
  /\ pa[i] = "active" /\ cb[i] = "idle"
  /\ Len(frames) + Cardinality({j \in StreamIds : cb[j] # "idle"}) < MaxBlocks
  /\ cb' = [cb EXCEPT ![i] = "checked"]
  /\ UNCHANGED <<recording, progress_window, pw_visible, record_action, icon,
                 settings_visible, model, is_recording, stream, frames,
                 current_sample_rate, current_device_info, pa, pc, ctx, closing,
                 inflight, volq, log, in_data, volume, waveform,
                 test_stream, is_testing, audio, recorder, quit_pc, meter, lockVars>>

\* AudioRecorder._callback on the audio thread, up to the test of is_recording; with the
\* flag false it returns paComplete and PortAudio stops calling.  The stream of the
\* microphone test calls _test_callback instead.
CallbackCheck(i) ==
  /\ pa[i] = "active" /\ cb[i] = "idle"
  /\ i # test_stream
  /\ IF is_recording
     THEN /\ Len(frames) + Cardinality({j \in StreamIds : cb[j] # "idle"}) < MaxBlocks
          /\ cb' = [cb EXCEPT ![i] = "checked"]
          /\ pa' = pa
     ELSE /\ pa' = [pa EXCEPT ![i] = "open"]
          /\ cb' = cb
  /\ UNCHANGED <<recording, progress_window, pw_visible, record_action, icon,
                 settings_visible, model, is_recording, stream, frames,
                 current_sample_rate, current_device_info, pc, ctx, closing, inflight,
                 volq, log, in_data, volume, waveform,
                 test_stream, is_testing, audio, recorder, quit_pc, meter, lockVars>>

\* _callback that ends the recording itself once it has appended a block: the variant
\* C29 is set against.
CallbackAppendEndsRecording(i) ==
  /\ cb[i] # "idle"
  /\ frames' = Append(frames, BlockOf(i))
  /\ volq' = TRUE
  /\ cb' = [cb EXCEPT ![i] = "idle"]
  /\ is_recording' = FALSE
  /\ UNCHANGED <<recording, progress_window, pw_visible, record_action, icon,
                 settings_visible, model, stream, current_sample_rate,
                 current_device_info, pa, pc, ctx, closing, inflight, log, in_data,
                 volume, waveform, test_stream, is_testing, audio, recorder, quit_pc, meter,
                 lockVars>>

\* _callback after the test: frames.append(in_data), volume_updated.emit, paContinue.
CallbackAppend(i) ==
  /\ cb[i] # "idle"
  /\ frames' = Append(frames, BlockOf(i))
  /\ volq' = TRUE
  /\ cb' = [cb EXCEPT ![i] = "idle"]
  /\ UNCHANGED <<recording, progress_window, pw_visible, record_action, icon,
                 settings_visible, model, is_recording, stream, current_sample_rate,
                 current_device_info, pa, pc, ctx, closing, inflight, log, in_data, volume, waveform,
                 test_stream, is_testing, audio, recorder, quit_pc, meter, lockVars>>

\* _update_volume_display without its test of tray.recording: the variant C34 is set
\* against.
UpdateVolumeDisplayAnyTime(s) ==
  IF s.progress_window # "None" THEN [s EXCEPT !.meter = TRUE] ELSE s

\* ApplicationTrayIcon._update_volume_display: progress_window.update_volume(level)
\* when a window exists and tray.recording is true.
UpdateVolumeDisplayOp(s) ==
  IF s.progress_window # "None" /\ s.recording THEN [s EXCEPT !.meter = TRUE] ELSE s

\* ApplicationTrayIcon._update_volume_display, the slot of volume_updated, run for the
\* queued events: the meter of the window is redrawn when a window exists and
\* tray.recording is true.
UpdateVolumeDisplay ==
  /\ pc = "idle" /\ volq
  /\ Commit(UpdateVolumeDisplayOp([Cur EXCEPT !.volq = FALSE]))

\* The transcriber answers a waveform with transcription_finished(text) ...
TranscriptionFinished ==
  /\ pc = "idle" /\ inflight > 0
  /\ Commit(HandleTranscriptionFinished([Cur EXCEPT !.inflight = @ - 1]))

\* ... or with transcription_error(message).
TranscriptionError ==
  /\ pc = "idle" /\ inflight > 0
  /\ Commit(HandleTranscriptionError([Cur EXCEPT !.inflight = @ - 1]))

\* processEvents returns into _close_progress_window, which sets progress_window = None.
CloseProgressEnd ==
  /\ pc = "idle" /\ closing > 0
  /\ Commit([Cur EXCEPT !.closing = @ - 1, !.progress_window = "None", !.pw_visible = FALSE])

Callback == \E i \in StreamIds : CallbackCheck(i) \/ CallbackAppend(i)

\* The input device of the recording in progress disappears ("device_lost"): PortAudio
\* stops delivering blocks, or goes on calling _callback with an error status, which
\* _callback logs as a warning before it does what it does for any block.
DeviceDisappears ==
  /\ pc = "idle" /\ is_recording /\ stream # 0 /\ pa[stream] = "active"
  /\ ~Has(log, "device_lost")
  /\ \E delivers \in BOOLEAN :
       Commit([Logged(Cur, "device_lost") EXCEPT
                 !.pa[stream] = IF delivers THEN "active" ELSE "open"])

Next ==
  \/ ToggleRecording
  \/ StopClicked
  \/ StopRest
  \/ Callback
  \/ DeviceDisappears
  \/ UpdateVolumeDisplay
  \/ TranscriptionFinished
  \/ TranscriptionError
  \/ CloseProgressEnd

Spec == Init /\ [][Next]_vars


\* ------------------------------------------------------------------------
\* Vocabulary of the properties.
OpenStreams == {i \in StreamIds : pa[i] # "free"}

\* The steps of a stop, in the order they happened in the current attempt.
StopSteps ==
  SelectSeq(log, LAMBDA e : e \in {"stop_stream", "close", "finished", "submit"})

\* A stop the user asked for has been handled to its end.
StopHandled == pc = "idle" /\ Has(log, "stop_req")

\* stop_stream, close or _process_recording raised in the current attempt.
StopRaised ==
  \E e \in {"stop_stream_raised", "close_raised", "process_raised"} : Has(log, e)

\* The recording side of the current attempt failed.
AttemptFailed ==
  \E e \in {"start_failed", "empty", "stop_stream_raised", "close_raised",
            "process_raised"} : Has(log, e)

\* Notifications shown for the current attempt by the recording side.
Notifications == Count(log, "note") + Count(log, "note_transcribe")

\* The orchestration is in Idle.
Idle == ~recording /\ progress_window = "None" /\ ~pw_visible

C2_NoCaptureDuringTranscription ==
  inflight > 0 => (~recording /\ ~is_recording)

\* C3: no block is appended to frames once is_recording is false.
C3_NoAppendAfterFlagFalse ==
  [][Len(frames') > Len(frames) => is_recording]_vars

\* C4: once the session has been finalized (frames read and joined), no callback
\* appends to frames.
C4_NoAppendAfterFinalize ==
  [][Has(log, "finished") => ~(Len(frames') > Len(frames))]_vars

\* C5: a second start produces no second session: start_recording with is_recording
\* true changes nothing, and at most one capture stream is open.
C5_OneCaptureStream ==
  /\ is_recording => \A e \in StartEnv : StartRecording(Cur, e) = Cur
  /\ Cardinality(OpenStreams) <= 1

\* C6: from Idle a stop is a no-op: with tray.recording false _stop_recording changes
\* nothing of the tray, calls nothing on the recorder and surfaces nothing; with
\* is_recording false stop_recording leaves stream, frames and is_recording as they
\* are and emits nothing.
C6_StopInIdleIsNoOp ==
  /\ ~recording => TrayStopRecording(Cur) = Cur
  /\ ~is_recording => StopRecordingBegin(Cur) = Cur

\* handle_recording_error has called _stop_recording in Idle (after stop_stream
\* raised), in a state where a stop that did act would have work to do: a stream
\* handle is still held and frames is not empty.
C6_Witness ==
  /\ ~recording /\ ~is_recording /\ pc = "idle"
  /\ Has(log, "stop_stream_raised") /\ Has(log, "note")
  /\ stream # 0 /\ frames # <<>>

\* C7: when the transcriber delivers finished or failed, and the handler has run to
\* its end, the machine is in Idle: tray.recording false, the progress window closed
\* and None.
C7_DeliveryEndsInIdle ==
  [][(closing' < closing \/ (inflight' < inflight /\ closing' = closing)) => Idle']_vars

\* C8: after a failed start the machine is in Idle with nothing dangling:
\* is_recording false, tray.recording false, the progress window closed, the menu
\* showing "Start Recording", and the error surfaced.
C8_StartFailureEndsInIdle ==
  (pc = "idle" /\ Has(log, "start_failed"))
    => /\ ~is_recording /\ ~recording
       /\ progress_window = "None" /\ ~pw_visible
       /\ record_action = "Start Recording" /\ icon = "normal"
       /\ Has(log, "note")

C8_Witness ==
  /\ pc = "idle" /\ Has(log, "start_failed") /\ Has(log, "note")
  /\ ~recording /\ ~is_recording /\ progress_window = "None"

\* C9: a failed attempt is notified exactly once.
C9_OneNotificationPerFailure ==
  (pc = "idle" /\ AttemptFailed) => Notifications = 1

\* C10: with no start or stop in progress and is_recording false, no stream is held:
\* stream is None and no stream is open.
C10_NoStreamWhenNotRecording ==
  (pc = "idle" /\ ~is_recording) => (stream = 0 /\ OpenStreams = {})

C12_EmptyRecordingFails ==
  (StopHandled /\ frames = <<>>)
    => /\ Has(log, "error") /\ Has(log, "note")
       /\ ~StopRaised => Has(log, "empty")
       /\ ~Has(log, "finished") /\ ~Has(log, "submit")
       /\ ~recording /\ ~is_recording

C12_Witness ==
  /\ StopHandled /\ frames = <<>> /\ Has(log, "empty") /\ ~StopRaised
  /\ stream = 0 /\ inflight = 0

\* C13: once the session has been finalized, a second finalize request without a start
\* in between fails with an error and emits no second waveform: a second
\* stop_recording emits recording_error, and a second _process_recording emits
\* recording_error and not recording_finished.
C13_SecondFinalizeFails ==
  (pc = "idle" /\ ~is_recording /\ Has(log, "finished"))
    => /\ Count(StopRecordingBegin(Cur).log, "error") > Count(log, "error")
       /\ \A x \in StopEnv :
            /\ Count(ProcessRecording(Cur, x).log, "finished") = Count(log, "finished")
            /\ Count(ProcessRecording(Cur, x).log, "error") > Count(log, "error")

\* C14: when mic_index names no device, start_recording fails: no open is attempted on
\* any device and no stream is opened; once the handlers have returned the error has
\* been shown and tray.recording and is_recording are false.
C14_DeviceNotFound ==
  Has(log, "device_not_found")
    => /\ ~Has(log, "try_target") /\ ~Has(log, "try_default") /\ ~Has(log, "opened")
       /\ Has(log, "start_failed") /\ Has(log, "error")
       /\ pc = "idle" => (Has(log, "note") /\ ~recording /\ ~is_recording /\ Idle)

C14_Witness ==
  /\ Has(log, "device_not_found") /\ pc = "idle" /\ Has(log, "note")
  /\ ~recording /\ ~is_recording /\ OpenStreams = {}

\* ------------------------------------------------------------------------
\* The current attempt fell back: the open at the target rate failed and the open at
\* the device's default rate succeeded.
FallbackTaken ==
  Has(log, "try_target") /\ Has(log, "try_default") /\ Has(log, "opened")

\* C15: in whisper mode the open at 16000 Hz comes first; when it fails and the open at
\* the device's default rate succeeds the recording proceeds: until a stop is asked for
\* (and unless start_stream itself raises) is_recording is true, current_sample_rate
\* is the device's default rate, the stream is open (and running while the device is
\* there) and no recording_error has been emitted, nothing shown.
C15_FallbackIsSilent ==
  /\ Has(log, "try_default") /\ Has(log, "try_target")
       => (log[1] = "try_target" /\ log[2] = "try_default")
  /\ (FallbackTaken /\ ~Has(log, "start_failed") /\ ~Has(log, "stop_req"))
       => /\ is_recording /\ recording
          /\ current_sample_rate = current_device_info
          /\ stream # 0 /\ pa[stream] # "free"
          /\ ~Has(log, "device_lost") => pa[stream] = "active"
          /\ ~Has(log, "error") /\ Notifications = 0

C15_Witness ==
  /\ FallbackTaken /\ ~Has(log, "start_failed") /\ ~Has(log, "stop_req")
  /\ is_recording /\ current_sample_rate = 44100 /\ frames # <<>>

\* C16: in device mode start_recording makes one open attempt, at the device's default
\* rate: it never tries the target rate, a failed open is not retried (the start has
\* failed), and a successful one stores the device's default rate.
C16_DeviceModeOpensOnce ==
  Has(log, "use_device_default")
    => /\ Count(log, "try_default") = 1 /\ ~Has(log, "try_target")
       /\ Count(log, "opened") <= 1
       /\ ~Has(log, "opened") => Has(log, "start_failed")
       /\ Has(log, "opened") => current_sample_rate = current_device_info

C16_Witness ==
  /\ Has(log, "use_device_default") /\ Count(log, "try_default") = 1
  /\ ~Has(log, "opened") /\ Has(log, "start_failed") /\ pc = "idle"
  /\ OpenStreams = {} /\ current_device_info = 44100

\* ------------------------------------------------------------------------
\* _process_recording's source rate for the resampling: current_sample_rate, or when
\* none was ever stored the default rate of the stored device, or when there is none
\* the default rate d of the default input device.
OriginalRate(s, d) ==
  IF s.current_sample_rate = 0
  THEN IF s.current_device_info # 0 THEN s.current_device_info ELSE d
  ELSE s.current_sample_rate

\* The rate passed to the open that succeeded in the current attempt: the device's
\* default rate when that open was the one at the default rate, else the target rate.
OpenedRate ==
  IF Has(log, "try_default") THEN current_device_info ELSE WHISPER_SAMPLE_RATE

\* C17: a finalized recording has a stream that was opened for it, and the source rate
\* of the resampling is the rate passed to that open.
C17_FinalizeUsesOpenedRate ==
  Has(log, "finished")
    => /\ Has(log, "opened")
       /\ \A d \in DeviceRates : OriginalRate(Cur, d) = OpenedRate

\* ------------------------------------------------------------------------
\* C18: a callback that finds is_recording false returns paComplete (PortAudio stops
\* calling it: the stream is no longer active), does not go on to the append, leaves
\* frames as they are and queues no volume sample; and a callback goes on to the
\* append only when it found the flag true.
C18_FlagFalseCompletes ==
  [][\A i \in StreamIds :
       /\ (CallbackCheck(i) /\ ~is_recording)
            => /\ pa'[i] = "open" /\ cb'[i] = "idle"
               /\ frames' = frames /\ volq' = volq
       /\ (cb[i] = "idle" /\ cb'[i] = "checked") => is_recording]_vars

\* A stop in progress whose stream has been completed by its callback before
\* stop_stream is called, nothing captured.
C18_Witness ==
  /\ pc = "stopping" /\ ctx = "top" /\ ~is_recording
  /\ stream # 0 /\ pa[stream] = "open" /\ cb[stream] = "idle"
  /\ frames = <<>> /\ ~volq

\* ------------------------------------------------------------------------
\* C19: after the input device disappeared during a recording the blocks captured so
\* far are not finalized and nothing is handed to the transcriber, and once the
\* recording has been stopped an error has been shown and the machine is in Idle.
C19_DeviceLostDiscards ==
  Has(log, "device_lost")
    => /\ ~Has(log, "finished") /\ ~Has(log, "submit")
       /\ StopHandled => (Has(log, "error") /\ Has(log, "note") /\ Idle)

\* ------------------------------------------------------------------------
\* The volume of a block: _callback's computation on the samples of in_data.

MaxBlockLen == 2     \* samples per block

\* rms / 32768.0
FullScale == 32768

\* int16 samples at and around the places where the square leaves 16 bits.
Samples == {0, 1, 181, 182, -182, 256, 1000, 32767, -32768}

Blocks == UNION {[1..n -> Samples] : n \in 0..MaxBlockLen}

\* A value stored as np.int16: two's complement, 16 bits.
Int16(v) == ((v + 32768) % 65536) - 32768

\* np.abs on an int16 array.
Abs16(x) == Int16(IF x < 0 THEN -x ELSE x)

\* np.abs(audio_data)**2: the power of an int16 array is an int16 array.
Squared(x) == Int16(Abs16(x) * Abs16(x))

\* A number below 2^31 in two digits of base 65536, and the sum of two such numbers.
Big(v) == <<v \div 65536, v % 65536>>

BigAdd(a, b) ==
  <<a[1] + b[1] + (a[2] + b[2]) \div 65536, (a[2] + b[2]) % 65536>>

RECURSIVE SumSquared(_)
\* The sum np.mean(squared) divides by len(audio_data).
SumSquared(b) ==
  IF b = <<>> THEN 0 ELSE Squared(Head(b)) + SumSquared(Tail(b))

\* min(1.0, max(0.0, rms / 32768.0)) for rms = sqrt(m / n), m >= 0: the value is 1.0
\* from m / n = 32768^2 on.
Clamped(m, n) ==
  IF m[1] >= n * ((FullScale * FullScale) \div 65536)
  THEN [num |-> <<n * ((FullScale * FullScale) \div 65536), 0>>, den |-> n]
  ELSE [num |-> m, den |-> n]

\* The computation without its test for an empty block: np.mean of no value is not
\* a number (written with den = 0).  The variant C21 is set against.
VolumeOfNoEmptyTest(b) ==
  LET any == \E i \in 1..Len(b) : Squared(b[i]) # 0
      sum == IF any THEN SumSquared(b) ELSE 0
  IN IF Len(b) = 0 THEN [num |-> <<0, 1>>, den |-> 0]
     ELSE IF sum > 0 THEN Clamped(Big(sum), Len(b))
     ELSE [num |-> <<0, 0>>, den |-> Len(b)]

\* The volume _callback emits for the block b: 0.0 for an empty block; else
\* mean_squared = np.mean(squared) if np.any(squared) else 0, rms = sqrt(mean_squared)
\* if mean_squared > 0 else 0, then the clamp.
VolumeOf(b) ==
  IF Len(b) > 0
  THEN LET any == \E i \in 1..Len(b) : Squared(b[i]) # 0
           sum == IF any THEN SumSquared(b) ELSE 0
       IN IF sum > 0 THEN Clamped(Big(sum), Len(b))
          ELSE [num |-> <<0, 0>>, den |-> Len(b)]
  ELSE [num |-> <<0, 0>>, den |-> 1]

RECURSIVE TrueSumSquares(_)
\* The sum of the squares of the samples as integers, in two digits.
TrueSumSquares(b) ==
  IF b = <<>> THEN <<0, 0>>
  ELSE BigAdd(Big(Head(b) * Head(b)), TrueSumSquares(Tail(b)))

\* sqrt(mean(x_i^2)) / 32768 clamped to [0, 1]; 0.0 for an empty block.
TrueVolume(b) ==
  IF Len(b) > 0 THEN Clamped(TrueSumSquares(b), Len(b))
  ELSE [num |-> <<0, 0>>, den |-> 1]

\* A byte that is left over when in_data is cut into int16 samples.
OddByte == 65536

\* What can be handed to _callback: whole samples, or whole samples and one more byte.
Buffers == Blocks \cup {Append(b, OddByte) : b \in {c \in Blocks : Len(c) < MaxBlockLen}}

\* np.frombuffer(in_data, dtype=np.int16) raises ValueError when the size of the buffer
\* is not a multiple of the size of a sample.
FromBufferRaises(b) == \E i \in 1..Len(b) : b[i] = OddByte

\* The value handed to volume_updated.emit: the volume computed, or 0.0 from the
\* except clause when the computation raised.
EmittedVolume(b) ==
  IF FromBufferRaises(b) THEN [num |-> <<0, 0>>, den |-> 1] ELSE VolumeOf(b)

\* PortAudio hands _callback a block of samples.
VolumeInit == Constructed /\ ~model /\ in_data \in Blocks /\ volume = NoVolume
              /\ waveform = NoWaveform

\* _callback computes the volume of in_data and emits it.
CallbackVolume ==
  /\ volume = NoVolume
  /\ volume' = EmittedVolume(in_data)
  /\ UNCHANGED <<programVars, in_data, waveform, lockVars>>

VolumeNext == CallbackVolume

SpecVolume == VolumeInit /\ [][VolumeNext]_vars

\* C20: the volume emitted for a block is sqrt(mean(x_i^2)) / 32768 clamped to [0, 1]
\* for the integer values x_i of its samples, and the square taken of each sample is
\* its square as an integer (it does not wrap around the 16-bit range).
C20_VolumeIsTrueRms ==
  volume # NoVolume
    => /\ volume = TrueVolume(in_data)
       /\ \A i \in 1..Len(in_data) : Squared(in_data[i]) = in_data[i] * in_data[i]

\* ------------------------------------------------------------------------
\* PortAudio hands _callback any buffer.
BufferInit == Constructed /\ ~model /\ in_data \in Buffers /\ volume = NoVolume
              /\ waveform = NoWaveform

SpecBuffer == BufferInit /\ [][VolumeNext]_vars

\* The value v is a number in [0.0, 1.0].
InUnit(v) ==
  /\ v.den > 0 /\ v.num[1] >= 0 /\ v.num[2] \in 0..65535
  /\ \/ v.num[1] < v.den * ((FullScale * FullScale) \div 65536)
     \/ v.num = <<v.den * ((FullScale * FullScale) \div 65536), 0>>

\* C21: for every buffer the callback emits a volume, and it is a number in
\* [0.0, 1.0]; it is 0.0 for an empty block, for a block of zeros and when the
\* computation raised.
C21_VolumeInUnitInterval ==
  [][/\ InUnit(volume')
     /\ (FromBufferRaises(in_data) \/ \A i \in 1..Len(in_data) : in_data[i] = 0)
          => volume'.num = <<0, 0>>]_vars

C21_Witness ==
  /\ Len(in_data) = MaxBlockLen /\ \A i \in 1..Len(in_data) : in_data[i] = 0
  /\ volume = [num |-> <<0, 0>>, den |-> MaxBlockLen]

\* ------------------------------------------------------------------------
\* The waveform of a recording: _process_recording's computation on the samples of
\* frames, at the rate the stream was opened at.

MaxFrames == 3         \* blocks of a recording whose samples vary
MaxSilentFrames == 20  \* blocks of a silent recording
BlockSamples == 2      \* samples per block (frames_per_buffer)

WaveSamples == {-32768, 0, 32767}

WaveBlocks == [1..BlockSamples -> WaveSamples]

SilentBlock == [i \in 1..BlockSamples |-> 0]

\* The contents of frames at a stop: any blocks, or a long silence.
Recordings ==
  UNION {[1..f -> WaveBlocks] : f \in 0..MaxFrames}
    \cup UNION {[1..f -> {SilentBlock}] : f \in 0..MaxSilentFrames}

\* Rates a stream is opened at: the target rate and default rates of devices.
SourceRates == {8000, WHISPER_SAMPLE_RATE, 32000, 44100, 48000}

RECURSIVE JoinBackwards(_)
\* The blocks joined last first: the variant C24 is set against.
JoinBackwards(f) ==
  IF f = <<>> THEN <<>> ELSE JoinBackwards(Tail(f)) \o Head(f)

RECURSIVE Join(_)
\* np.frombuffer(b''.join(self.frames), dtype=np.int16)
Join(f) ==
  IF f = <<>> THEN <<>> ELSE Head(f) \o Join(Tail(f))

\* A length that is not changed by the rate: the variant C23 is set against.
OutputLengthSame(n, rate) == n

\* ratio = WHISPER_SAMPLE_RATE / original_rate; output_length = int(len(audio_data) *
\* ratio): int() cuts the fraction off.
OutputLength(n, rate) == (n * WHISPER_SAMPLE_RATE) \div rate

RECURSIVE SumOf(_)
SumOf(x) == IF x = <<>> THEN 0 ELSE Head(x) + SumOf(Tail(x))

Silent(x) == \A i \in 1..Len(x) : x[i] = 0

\* 2 cos(2 pi j / 6)
TwoCos6(j) == <<2, 1, -1, -2, -1, 1>>[(j % 6) + 1]

\* signal.resample(x, n), the Fourier method (the spectrum of x cut to n bins and
\* transformed back), where its sums have whole coefficients:
\*  - n = 0: the inverse transform of no point raises;
\*  - x silent: n zeros;
\*  - n = 1: only the mean of x is left;
\*  - 6 samples to 3: the bins 0, 1 and -1 are kept, and output m is
\*    sum_k x[k] * (1 + 2 cos(2 pi (k - 2 m) / 6)) / 6.
SignalResample(x, n) ==
  CASE n = 0 -> [status |-> "error", num |-> <<>>, den |-> 1]
    [] n > 0 /\ Silent(x) ->
         [status |-> "finished", num |-> [m \in 1..n |-> 0], den |-> 1]
    [] n = 1 /\ ~Silent(x) ->
         [status |-> "finished", num |-> <<SumOf(x)>>, den |-> Len(x)]
    [] n = 3 /\ Len(x) = 6 /\ ~Silent(x) ->
         [status |-> "finished",
          num |-> [m \in 1..3 |->
                     SumOf([k \in 1..6 |-> x[k] * (1 + TwoCos6(k - 1 - 2 * (m - 1)))])],
          den |-> 6]

\* The cases of SignalResample.
Resamplable(x, n) ==
  n = 0 \/ Silent(x) \/ n = 1 \/ (n = 3 /\ Len(x) = 6)

\* _process_recording from the join to the emit: resampled when the rate is not the
\* target rate, then audio_data.astype(np.float32) / 32768.0 (the division is in the
\* way a waveform is written).
WaveformOf(f, rate) ==
  IF rate # WHISPER_SAMPLE_RATE
  THEN SignalResample(Join(f), OutputLength(Len(Join(f)), rate))
  ELSE [status |-> "finished", num |-> Join(f), den |-> 1]

\* A recording has been captured at some rate and stopped.
ResampleInit ==
  /\ NoSession /\ ~model
  /\ current_sample_rate \in SourceRates
  /\ frames \in Recordings
  /\ \/ current_sample_rate = WHISPER_SAMPLE_RATE
     \/ Resamplable(Join(frames), OutputLength(Len(Join(frames)), current_sample_rate))
  /\ in_data = <<>> /\ volume = NoVolume /\ waveform = NoWaveform
  /\ NoLock

\* _process_recording: recording_finished.emit(audio_data), or recording_error.emit
\* from its except clause.
ProcessRecordingData ==
  /\ waveform = NoWaveform
  /\ waveform' = WaveformOf(frames, OriginalRate(Cur, WHISPER_SAMPLE_RATE))
  /\ UNCHANGED <<programVars, in_data, volume, lockVars>>

ResampleNext == ProcessRecordingData

SpecResample == ResampleInit /\ [][ResampleNext]_vars

\* round(n * 16000 / rate), a half rounded up, and a half rounded down.
RoundUp(n, rate) == (2 * n * WHISPER_SAMPLE_RATE + rate) \div (2 * rate)

RoundDown(n, rate) == (2 * n * WHISPER_SAMPLE_RATE + rate - 1) \div (2 * rate)

Differ(a, b) == IF a > b THEN a - b ELSE b - a

\* C22: at a rate other than 16000 Hz the waveform has round(N * 16000 / rate) samples,
\* N the number of samples captured.
C22_LengthIsRounded ==
  (waveform.status = "finished" /\ current_sample_rate # WHISPER_SAMPLE_RATE)
    => \/ Len(waveform.num) = RoundUp(Len(Join(frames)), current_sample_rate)
       \/ Len(waveform.num) = RoundDown(Len(Join(frames)), current_sample_rate)

\* C23: at every rate the length of the waveform is within one sample of
\* round(N * 16000 / rate), however a half is rounded.
C23_LengthWithinOne ==
  waveform.status = "finished"
    => /\ Differ(Len(waveform.num), RoundUp(Len(Join(frames)), current_sample_rate)) <= 1
       /\ Differ(Len(waveform.num), RoundDown(Len(Join(frames)), current_sample_rate)) <= 1

C23_Witness ==
  /\ waveform.status = "finished" /\ current_sample_rate = 44100
  /\ Len(waveform.num) + 1 = RoundUp(Len(Join(frames)), current_sample_rate)
  /\ Len(waveform.num) > BlockSamples

\* C24: for a stream opened at 16000 Hz the waveform is not resampled: it is emitted,
\* it has as many samples as were captured in all blocks, and they are the samples of
\* the blocks in the order of the appends, each divided by 32768.
C24_PassThroughAtTargetRate ==
  (waveform # NoWaveform /\ current_sample_rate = WHISPER_SAMPLE_RATE)
    => /\ waveform.status = "finished" /\ waveform.den = 1
       /\ Len(waveform.num) = Len(frames) * BlockSamples
       /\ \A k \in 1..Len(frames) : \A i \in 1..BlockSamples :
            waveform.num[(k - 1) * BlockSamples + i] = frames[k][i]

C24_Witness ==
  /\ waveform.status = "finished" /\ current_sample_rate = WHISPER_SAMPLE_RATE
  /\ Len(frames) = MaxFrames /\ frames[1] # frames[MaxFrames]
  /\ waveform.num[1] = 32767 /\ waveform.num[Len(waveform.num)] = -32768

\* C25: every sample of an emitted waveform is in [-1.0, 1.0], resampled or not.
C25_SamplesInRange ==
  waveform.status = "finished"
    => \A i \in 1..Len(waveform.num) :
         /\ waveform.num[i] <= waveform.den * FullScale
         /\ waveform.num[i] >= -(waveform.den * FullScale)

\* ------------------------------------------------------------------------
\* Closing the streams: stop_mic_test, cleanup, and stop_recording with no stream.

\* What PortAudio answers to the stop_stream and close of one stream.
CloseEnv == {x \in StopEnv : x.procOk /\ x.submitOk}

\* What it answers to the open and start_stream of the microphone test.
TestEnv == [openOk : BOOLEAN, startOk : BOOLEAN]

\* test_stream.stop_stream(); test_stream.close(); test_stream = None, up to the first
\* call that raises ("test_raised").
CloseTestStream(s, y) ==
  LET i == s.test_stream
  IN IF ~y.stopOk
     THEN Logged([s EXCEPT !.pa[i] = IF @ = "active" /\ ~y.stays THEN "open" ELSE @],
                 "test_raised")
     ELSE IF ~y.closeOk
     THEN Logged([s EXCEPT !.pa[i] = IF @ = "active" THEN "open" ELSE @], "test_raised")
     ELSE Logged([s EXCEPT !.pa[i] = "free", !.test_stream = 0], "test_close")

\* AudioRecorder.start_mic_test; the exception it re-raises goes to its caller and
\* changes nothing here.
StartMicTest(s, e) ==
  IF s.is_testing \/ s.is_recording THEN s
  ELSE IF ~s.audio \/ ~e.openOk THEN s
  ELSE LET a == [s EXCEPT !.test_stream = FreeId(s), !.pa[FreeId(s)] = "open"]
       IN IF e.startOk
          THEN [a EXCEPT !.pa[a.test_stream] = "active", !.is_testing = TRUE]
          ELSE a

\* AudioRecorder.stop_mic_test; an exception of stop_stream or close goes to its caller
\* and leaves is_testing as it is.
StopMicTest(s, y) ==
  LET a == IF s.test_stream # 0 THEN CloseTestStream(s, y) ELSE s
  IN IF s.test_stream # 0 /\ a.test_stream # 0 THEN [a EXCEPT !.log = s.log]
     ELSE [a EXCEPT !.is_testing = FALSE, !.log = s.log]

\* audio.terminate(): PortAudio closes every stream that is still open.
Terminate(s) ==
  [s EXCEPT !.pa = [i \in StreamIds |-> "free"], !.audio = FALSE]

\* cleanup from the test of test_stream on.
CleanupRest(s, y) ==
  LET a == IF s.test_stream # 0 THEN CloseTestStream(s, y) ELSE s
  IN IF s.test_stream # 0 /\ a.test_stream # 0 THEN Logged(a, "cleanup_raised")
     ELSE Logged(IF a.audio THEN Terminate(a) ELSE a, "cleanup_done")

\* AudioRecorder.cleanup: x is what PortAudio answers for stream, y for test_stream.
\* The log holds "cleanup", the calls made, and then "cleanup_done" (it returned) or
\* "cleanup_raised" (an exception left it).
Cleanup(s, x, y) ==
  LET s0 == Logged(s, "cleanup")
      a  == IF s.stream # 0 THEN StopStream(s0, x) ELSE s0
      b  == IF s.stream # 0 /\ x.stopOk THEN CloseStream(a, x) ELSE a
  IN IF s.stream # 0 /\ (~x.stopOk \/ ~x.closeOk)
     THEN Logged(b, "cleanup_raised")
     ELSE CleanupRest(b, y)

\* The settings window starts or stops the microphone test.
MicTest ==
  /\ pc = "idle"
  /\ \/ /\ FreeId(Cur) # 0
        /\ \E e \in {e \in TestEnv : ~e.openOk => e.startOk} : Commit(StartMicTest(Cur, e))
     \/ /\ test_stream # 0 \/ is_testing
        /\ \E y \in CloseEnv :
             /\ (test_stream # 0 /\ y.stopOk) => cb[test_stream] = "idle"
             /\ Commit(StopMicTest(Cur, y))

\* cleanup is called; stop_stream returns once the callback in progress has returned.
CleanupCall ==
  /\ pc = "idle"
  /\ Count(log, "cleanup") < MaxCleanups
  /\ \E x \in CloseEnv, y \in CloseEnv :
       /\ (stream # 0 /\ x.stopOk) => cb[stream] = "idle"
       /\ (stream = 0) => x = CHOOSE z \in CloseEnv : z.stopOk /\ z.closeOk
       /\ (test_stream = 0) => y = CHOOSE z \in CloseEnv : z.stopOk /\ z.closeOk
       /\ Commit(Cleanup(Cur, x, y))

\* A recording is started only while the PyAudio instance is there.
ToggleWithAudio == (~recording => audio) /\ ToggleRecording

CloseNext ==
  \/ ToggleWithAudio
  \/ StopRest
  \/ Callback
  \/ MicTest
  \/ CleanupCall

SpecClose == Init /\ [][CloseNext]_vars

\* What the recorder holds: its handles, its flags, its buffer, and the streams of
\* PortAudio.
RecorderState == <<stream, test_stream, audio, is_recording, is_testing, frames, pa>>

Last(l) == IF l = <<>> THEN "" ELSE l[Len(l)]

\* The step is a whole call of cleanup.
CleanupStep == Count(log', "cleanup") = Count(log, "cleanup") + 1

\* The events a step added to the log.
Added == IF Len(log') >= Len(log) THEN SubSeq(log', Len(log) + 1, Len(log')) ELSE log'

\* C26: closing is idempotent.  A cleanup, or a stop_recording, that finds stream None
\* calls stop_stream and close on no stream and raises nothing; and a cleanup that
\* follows a cleanup leaves the recorder (handles, flags, buffer, PortAudio's streams)
\* as the first one left it.
C26_ClosingIsIdempotent ==
  [][/\ (CleanupStep /\ stream = 0 /\ test_stream = 0)
          => Added = <<"cleanup", "cleanup_done">>
     /\ (pc = "stopping" /\ pc' = "idle" /\ stream = 0)
          => ~\E e \in {"stop_stream", "close", "stop_stream_raised", "close_raised"} :
                Has(Added, e)
     /\ (CleanupStep /\ Last(log) \in {"cleanup_done", "cleanup_raised"})
          => RecorderState' = RecorderState]_vars

\* ------------------------------------------------------------------------
\* The single-instance lock: check_already_running at the start of a process and the
\* release of the lock at its end, one action per file-system step.  A flock belongs to
\* the open file and goes with its close; os.remove takes the name away and leaves the
\* file to those who have it open.

\* A file nobody has open and that is not at the path: what open(..., 'w') creates.
NewFile ==
  CHOOSE f \in Files :
    f # lock_path /\ \A p \in Procs : test_lock[p] # f /\ LOCK_FILE[p] # f

At(p, where) == lock_pc[p] = where
\* A step of a process around the lock leaves the application's own state alone.
Goto(p, where) ==
  /\ lock_pc' = [lock_pc EXCEPT ![p] = where]
  /\ UNCHANGED <<programVars, in_data, volume, waveform>>

\* main() calls check_already_running.
LockStart(p) ==
  /\ At(p, "off") /\ Goto(p, "exists")
  /\ UNCHANGED <<lock_path, flocked, test_lock, LOCK_FILE>>

\* if os.path.exists(LOCK_FILE_PATH)
LockExists(p) ==
  /\ At(p, "exists")
  /\ Goto(p, IF lock_path # 0 THEN "open" ELSE "create")
  /\ UNCHANGED <<lock_path, flocked, test_lock, LOCK_FILE>>

\* test_lock = open(LOCK_FILE_PATH, 'r+'); FileNotFoundError goes to the handler of
\* line 588.
LockOpen(p) ==
  /\ At(p, "open")
  /\ IF lock_path # 0
     THEN test_lock' = [test_lock EXCEPT ![p] = lock_path] /\ Goto(p, "flock")
     ELSE test_lock' = test_lock /\ Goto(p, "remove_after_error")
  /\ UNCHANGED <<lock_path, flocked, LOCK_FILE>>

\* The handler of line 588: os.remove(LOCK_FILE_PATH), whatever it raises is passed.
LockRemoveAfterError(p) ==
  /\ At(p, "remove_after_error")
  /\ lock_path' = 0
  /\ Goto(p, "create")
  /\ UNCHANGED <<flocked, test_lock, LOCK_FILE>>

\* fcntl.flock(test_lock, LOCK_EX | LOCK_NB); on IOError test_lock.close() and
\* return True.
LockFlock(p) ==
  /\ At(p, "flock")
  /\ IF flocked[test_lock[p]] = 0
     THEN /\ flocked' = [flocked EXCEPT ![test_lock[p]] = p]
          /\ test_lock' = test_lock
          /\ Goto(p, "unlock")
     ELSE /\ flocked' = flocked
          /\ test_lock' = [test_lock EXCEPT ![p] = 0]
          /\ Goto(p, "off")
  /\ UNCHANGED <<lock_path, LOCK_FILE>>

\* The pid is read and looked up (both outcomes only log); fcntl.flock(test_lock, LOCK_UN)
LockUnlock(p) ==
  /\ At(p, "unlock")
  /\ flocked' = [flocked EXCEPT ![test_lock[p]] = 0]
  /\ Goto(p, "close")
  /\ UNCHANGED <<lock_path, test_lock, LOCK_FILE>>

\* test_lock.close()
LockClose(p) ==
  /\ At(p, "close")
  /\ test_lock' = [test_lock EXCEPT ![p] = 0]
  /\ Goto(p, "remove")
  /\ UNCHANGED <<lock_path, flocked, LOCK_FILE>>

\* os.remove(LOCK_FILE_PATH) of the stale file; FileNotFoundError is an IOError, so the
\* handler of line 583 returns True.
LockRemove(p) ==
  /\ At(p, "remove")
  /\ lock_path' = 0
  /\ Goto(p, IF lock_path # 0 THEN "create" ELSE "off")
  /\ UNCHANGED <<flocked, test_lock, LOCK_FILE>>

\* LOCK_FILE = open(LOCK_FILE_PATH, 'w'): the file at the path, or a new one; the pid
\* is written.
LockCreate(p) ==
  /\ At(p, "create")
  /\ LET f == IF lock_path # 0 THEN lock_path ELSE NewFile
     IN /\ lock_path' = f
        /\ LOCK_FILE' = [LOCK_FILE EXCEPT ![p] = f]
  /\ Goto(p, "flock_new")
  /\ UNCHANGED <<flocked, test_lock>>

\* fcntl.flock(LOCK_FILE, LOCK_EX | LOCK_NB): return False, the process may run; on
\* IOError LOCK_FILE.close(), LOCK_FILE = None, return True.
LockFlockNew(p) ==
  /\ At(p, "flock_new")
  /\ IF flocked[LOCK_FILE[p]] = 0
     THEN /\ flocked' = [flocked EXCEPT ![LOCK_FILE[p]] = p]
          /\ LOCK_FILE' = LOCK_FILE
          /\ Goto(p, "running")
     ELSE /\ flocked' = flocked
          /\ LOCK_FILE' = [LOCK_FILE EXCEPT ![p] = 0]
          /\ Goto(p, "off")
  /\ UNCHANGED <<lock_path, test_lock>>

\* _release_lock_file / cleanup_lock_file: fcntl.flock(LOCK_FILE, LOCK_UN)
ReleaseUnlock(p) ==
  /\ At(p, "running")
  /\ flocked' = [flocked EXCEPT ![LOCK_FILE[p]] = 0]
  /\ Goto(p, "release_close")
  /\ UNCHANGED <<lock_path, test_lock, LOCK_FILE>>

\* LOCK_FILE.close(): the name LOCK_FILE goes on holding the closed file object.
ReleaseClose(p) ==
  /\ At(p, "release_close")
  /\ LOCK_FILE' = [LOCK_FILE EXCEPT ![p] = ClosedFile]
  /\ Goto(p, "release_exists")
  /\ UNCHANGED <<lock_path, flocked, test_lock>>

\* if os.path.exists(LOCK_FILE_PATH); with no file at the path the remove is skipped
\* and LOCK_FILE = None follows.
ReleaseExists(p) ==
  /\ At(p, "release_exists")
  /\ IF lock_path # 0
     THEN LOCK_FILE' = LOCK_FILE /\ Goto(p, "release_remove")
     ELSE LOCK_FILE' = [LOCK_FILE EXCEPT ![p] = 0] /\ Goto(p, "released")
  /\ UNCHANGED <<lock_path, flocked, test_lock>>

\* os.remove(LOCK_FILE_PATH); LOCK_FILE = None.  With no file left at the path
\* os.remove raises FileNotFoundError, the except clause logs it and LOCK_FILE keeps
\* the closed file object.
ReleaseRemove(p) ==
  /\ At(p, "release_remove")
  /\ lock_path' = 0
  /\ LOCK_FILE' = [LOCK_FILE EXCEPT ![p] = IF lock_path # 0 THEN 0 ELSE @]
  /\ Goto(p, "released")
  /\ UNCHANGED <<flocked, test_lock>>

\* cleanup_lock_file when the release has already run (main, after app.exec()): with
\* LOCK_FILE None it does nothing; with the closed file object flock raises ValueError,
\* which is logged.  Then the process ends.
CleanupLockFile(p) ==
  /\ At(p, "released")
  /\ LOCK_FILE' = [LOCK_FILE EXCEPT ![p] = 0]
  /\ Goto(p, "off")
  /\ UNCHANGED <<lock_path, flocked, test_lock>>

LockStep(p) ==
  \/ LockStart(p)
  \/ LockExists(p)
  \/ LockOpen(p)
  \/ LockRemoveAfterError(p)
  \/ LockFlock(p)
  \/ LockUnlock(p)
  \/ LockClose(p)
  \/ LockRemove(p)
  \/ LockCreate(p)
  \/ LockFlockNew(p)
  \/ ReleaseUnlock(p)
  \/ ReleaseClose(p)
  \/ ReleaseExists(p)
  \/ ReleaseRemove(p)
  \/ CleanupLockFile(p)

LockNext == \E p \in Procs : LockStep(p)

SpecLock == Init /\ [][LockNext]_vars

\* Process p has been told it may run and has not begun to release the lock.
MayRun(p) == lock_pc[p] = "running"

\* Process p holds the application lock.
HoldsLock(p) == LOCK_FILE[p] \in Files /\ flocked[LOCK_FILE[p]] = p

\* C27: under every interleaving of the file-system steps of the processes, no
\* process has been told that it may run while another instance, itself told so,
\* still holds the application lock.
C27_AtMostOneMayRun ==
  \A p, q \in Procs : (p # q /\ MayRun(p)) => ~(MayRun(q) /\ HoldsLock(q))

\* ------------------------------------------------------------------------
\* quit_application, one action per helper it calls.  It runs on the main thread from
\* the menu's Quit action; the audio thread goes on calling back meanwhile, and the
\* transcription worker is taken not to finish by itself while the main thread waits.

\* The application's own process is process 1 and holds the lock.
HasLock ==
  /\ lock_path = 1
  /\ flocked = [f \in Files |-> IF f = 1 THEN 1 ELSE 0]
  /\ test_lock = [p \in Procs |-> 0]
  /\ LOCK_FILE = [p \in Procs |-> IF p = 1 THEN 1 ELSE 0]
  /\ lock_pc = [p \in Procs |-> IF p = 1 THEN "running" ELSE "off"]

QuitInit ==
  /\ NoSession /\ frames = <<>> /\ current_sample_rate = 0
  /\ HasLock
  /\ in_data = <<>> /\ volume = NoVolume /\ waveform = NoWaveform

\* worker.wait() with no timeout: the variant C28 is set against.
WaitForThreadsNoTimeout(s) ==
  IF s.inflight > 0 THEN {} ELSE {"not_running"}

\* _wait_for_threads: how the wait for the worker ends.  worker.wait(5000) returns
\* after five seconds at the latest.
WaitForThreads(s) ==
  IF s.inflight > 0 THEN {"timeout"} ELSE {"not_running"}

\* The Quit action is triggered.
QuitApplication ==
  /\ pc = "idle" /\ quit_pc = "none"
  /\ Commit([Cur EXCEPT !.quit_pc = "cleanup"])

\* _cleanup_recorder: recorder.cleanup() with whatever it raises logged, then
\* recorder = None.
QuitCleanupRecorder ==
  /\ quit_pc = "cleanup"
  /\ IF recorder
     THEN \E x \in CloseEnv, y \in CloseEnv :
            /\ (stream # 0 /\ x.stopOk) => cb[stream] = "idle"
            /\ (stream = 0) => x = CHOOSE z \in CloseEnv : z.stopOk /\ z.closeOk
            /\ (test_stream = 0) => y = CHOOSE z \in CloseEnv : z.stopOk /\ z.closeOk
            /\ Commit([Cleanup(Cur, x, y) EXCEPT !.recorder = FALSE, !.quit_pc = "windows"])
     ELSE Commit([Cur EXCEPT !.quit_pc = "windows"])

\* _close_windows: the settings window and the progress window are closed when
\* visible; progress_window keeps its object.
QuitCloseWindows ==
  /\ quit_pc = "windows"
  /\ Commit([Cur EXCEPT !.settings_visible = FALSE, !.pw_visible = FALSE,
                        !.quit_pc = "stop"])

\* _stop_active_recording
QuitStopActiveRecording ==
  /\ quit_pc = "stop"
  /\ Commit([(IF recording THEN TrayStopRecording(Cur) ELSE Cur) EXCEPT !.quit_pc = "wait"])

\* _wait_for_threads
QuitWaitForThreads ==
  /\ quit_pc = "wait"
  /\ \E o \in WaitForThreads(Cur) : Commit([Cur EXCEPT !.quit_pc = "lock"])

\* _release_lock_file, step by step (what it raises is logged and it returns).
QuitReleaseLockFile ==
  /\ quit_pc = "lock"
  /\ \/ ReleaseUnlock(1)
     \/ ReleaseClose(1)
     \/ ReleaseExists(1)
     \/ ReleaseRemove(1)

\* QApplication.instance().quit() and the timer of sys.exit(0); or the call raises and
\* the handler runs sys.exit(1).
QuitExit ==
  /\ quit_pc = "lock" /\ lock_pc[1] = "released"
  /\ \E raises \in BOOLEAN :
       Commit([Cur EXCEPT !.quit_pc = IF raises THEN "exit1" ELSE "quit"])

\* The steps of quit_application.
QuitStep ==
  \/ QuitCleanupRecorder
  \/ QuitCloseWindows
  \/ QuitStopActiveRecording
  \/ QuitWaitForThreads
  \/ QuitReleaseLockFile
  \/ QuitExit

\* What start_recording meets in the runs that end in a quit: the default device at
\* the target rate, with every outcome of the opens and of start_stream.
QuitStartEnv ==
  {e \in StartEnvNow :
     e.lookup = DeviceLookup("None") /\ e.mode = "whisper" /\ e.rate = WHISPER_SAMPLE_RATE}

\* The events served before Quit is triggered: the recording is toggled, and a stop
\* goes on.
BeforeQuit ==
  /\ quit_pc = "none"
  /\ \/ /\ pc = "idle"
        /\ (~recording /\ model) => inflight < MaxInflight
        /\ \E e \in (IF ~recording /\ model THEN QuitStartEnv ELSE {NoStart}) :
             Commit(ToggleRecordingOp(Cur, e))
     \/ StopRest

\* The process has been shut down: QApplication.quit() or sys.exit(1).
ShutDown == quit_pc \in {"quit", "exit1"}

\* The audio thread calls back as long as the process lives.
CallbackAlive == ~ShutDown /\ Callback

QuitNext ==
  \/ BeforeQuit
  \/ CallbackAlive
  \/ QuitApplication
  \/ QuitStep

\* The main thread goes on with quit_application once it has begun.
SpecQuit == QuitInit /\ [][QuitNext]_vars /\ WF_vars(QuitStep)

\* C28: quit_application, called in any state (idle, recording, processing with the
\* worker still running), always reaches the shutdown of the process: the wait for the
\* worker is bounded, and every path, also one where a cleanup step raises, ends in
\* QApplication.quit or sys.exit.
C28_QuitReachesShutdown == (quit_pc # "none") ~> ShutDown

\* Shut down by QApplication.quit after recorder.cleanup raised, with a transcription
\* still under way.
C28_Witness ==
  /\ quit_pc = "quit"
  /\ inflight > 0
  /\ Has(log, "cleanup_raised")

\* ------------------------------------------------------------------------
\* C29: the realtime callback never changes the state of the orchestration.  A step of
\* _callback writes frames and queues a volume_updated; it leaves recorder.is_recording,
\* recorder.stream, current_sample_rate, tray.recording and tray.progress_window as
\* they are, and the recorder's other fields too.
C29_CallbackLeavesOrchestration ==
  [][Callback =>
       /\ UNCHANGED <<is_recording, stream, current_sample_rate, recording, progress_window>>
       /\ UNCHANGED <<current_device_info, test_stream, is_testing, audio, pw_visible,
                      record_action, icon, inflight, pc>>]_vars

\* A callback has appended a block to a recording in progress and its volume is
\* queued for the main thread.
C29_Witness ==
  /\ frames # <<>> /\ volq
  /\ is_recording /\ recording /\ stream # 0 /\ progress_window = "recording"

\* ------------------------------------------------------------------------
\* C30: after every completely handled event the tray and the recorder agree on
\* whether a recording is active: tray.recording = recorder.is_recording.  After a stop
\* that was asked for the recorder is not recording; after a start it is recording,
\* or it was stopped on request, or an error was shown.
C30_TrayAndRecorderAgree ==
  pc = "idle" =>
    /\ recording = is_recording
    /\ Has(log, "stop_req") => ~is_recording
    /\ log # <<>> => (is_recording \/ Has(log, "stop_req") \/ Has(log, "note"))

\* A start has failed and has been handled: the error was shown and neither side
\* records.
C30_Witness ==
  /\ pc = "idle" /\ Has(log, "start_failed") /\ Has(log, "note")
  /\ ~recording /\ ~is_recording

\* ------------------------------------------------------------------------
\* C31: the waveform emitted for a recording is built from exactly the blocks appended
\* between that recording's start and its stop: when recording_finished has been
\* emitted, frames, which _process_recording joined, holds no block captured before the
\* recording was started.
C31_WaveformOfThisRecording ==
  Has(log, "finished") => \A k \in 1..Len(frames) : frames[k] = "block"

\* ------------------------------------------------------------------------
\* One call of _callback as a whole, on the bytes it is handed, in recordings that are
\* started and stopped.

\* _callback whose except clause emits nothing: the variant C32 is set against.
EmitsNoHandler(b) ==
  IF FromBufferRaises(b) THEN <<>> ELSE <<VolumeOf(b)>>

\* The values _callback hands to volume_updated.emit, in order: the volume computed
\* (229), or, when the computation raised before that emit, 0.0 from the except
\* clause (232).
Emits(b) ==
  IF FromBufferRaises(b) THEN <<EmittedVolume(b)>> ELSE <<VolumeOf(b)>>

\* The buffers handed to the callback in these runs: silence, a sound, and a buffer
\* that is not whole samples.
CallBuffers ==
  {b \in Buffers : \A k \in 1..Len(b) : b[k] \in {0, 1000, OddByte}}

CallInit ==
  /\ Constructed /\ model
  /\ in_data \in CallBuffers /\ volume = NoVolume /\ waveform = NoWaveform

\* _callback, from its call by PortAudio to its return.  The log gets an "emit" for
\* each value emitted and the value returned.
CallbackCall(i) ==
  /\ pa[i] = "active" /\ cb[i] = "idle"
  /\ i # test_stream
  /\ IF is_recording
     THEN /\ Len(frames) < MaxBlocks
          /\ frames' = Append(frames, in_data)
          /\ volq' = (volq \/ Emits(in_data) # <<>>)
          /\ volume' = IF Emits(in_data) = <<>> THEN volume
                       ELSE Emits(in_data)[Len(Emits(in_data))]
          /\ log' = log \o [k \in 1..Len(Emits(in_data)) |-> "emit"] \o <<"paContinue">>
          /\ pa' = pa
     ELSE /\ pa' = [pa EXCEPT ![i] = "open"]
          /\ log' = Append(log, "paComplete")
          /\ UNCHANGED <<frames, volq, volume>>
  /\ UNCHANGED <<recording, progress_window, pw_visible, record_action, icon,
                 settings_visible, model, is_recording, stream, current_sample_rate,
                 current_device_info, cb, pc, ctx, closing, inflight, in_data,
                 waveform, test_stream, is_testing, audio, recorder, quit_pc, meter, lockVars>>

\* The recording is toggled with the default device at the target rate, a stop goes
\* on, and PortAudio calls back.
CallNext ==
  \/ BeforeQuit
  \/ \E i \in StreamIds : CallbackCall(i)

SpecCall == CallInit /\ [][CallNext]_vars

\* C32: each call of _callback with is_recording true appends exactly one block to
\* frames, emits exactly one value with volume_updated and returns paContinue; when
\* the computation of the volume raises, the block is appended all the same and the
\* one value emitted is 0.0.
C32_OneBlockOneVolume ==
  [][\A i \in StreamIds :
       (CallbackCall(i) /\ is_recording) =>
         /\ frames' = Append(frames, in_data)
         /\ Added = <<"emit", "paContinue">>
         /\ volq'
         /\ FromBufferRaises(in_data) => volume' = [num |-> <<0, 0>>, den |-> 1]]_vars

\* A call whose computation of the volume raised has returned: the buffer is in
\* frames and 0.0 was emitted.
C32_Witness ==
  /\ FromBufferRaises(in_data)
  /\ frames = <<in_data>>
  /\ volume = [num |-> <<0, 0>>, den |-> 1]
  /\ Count(log, "emit") = 1 /\ Last(log) = "paContinue"

\* ------------------------------------------------------------------------
\* C33: whenever tray.recording is true once an event has been handled to its end, a
\* progress window exists and it is in recording mode.
C33_RecordingHasRecordingWindow ==
  (pc = "idle" /\ closing = 0 /\ recording) => progress_window = "recording"

\* ------------------------------------------------------------------------
\* C34: a volume is handed to the progress window only while the tray is in Recording:
\* a step in which the window is handed its first volume is taken with tray.recording
\* true and a window there, so a volume event served after the stop does not reach
\* the window.
C34_VolumeOnlyWhileRecording ==
  [][(meter' /\ ~meter) => (recording /\ progress_window # "None")]_vars

\* A volume event is still queued when the stop has been handled, and the window, which
\* was handed nothing before, is there; then the event has been served.
C34_Witness ==
  /\ pc = "idle" /\ ~recording /\ progress_window # "None"
  /\ Has(log, "stop_req") /\ frames # <<>>
  /\ ~volq /\ ~meter

C36_FailedSubmitReturnsToIdle ==
  [][Has(Added, "note_transcribe") =>
       /\ ~recording' /\ progress_window' = "None" /\ ~pw_visible'
       /\ inflight' = inflight]_vars

\* transcribe_audio raised for the waveform of a recording that had blocks.
C36_Witness ==
  /\ pc = "idle" /\ Last(log) = "note_transcribe" /\ Has(log, "finished")
  /\ frames # <<>> /\ Idle

\* ------------------------------------------------------------------------
\* The recording was active when Quit was triggered: recorder.cleanup leaves
\* is_recording as it is and the stop that follows finds no recorder.
QuitWhileRecording == ShutDown /\ is_recording

\* C37: quit_application invoked while a recording is active ends with the capture
\* stream closed (the recorder holds no handle and PortAudio no open stream),
\* tray.recording false and nothing of the recording finalized: no recording_finished,
\* no waveform handed to the transcriber.
C37_QuitDropsRecording ==
  QuitWhileRecording =>
    /\ ~recording
    /\ ~Has(log, "finished") /\ ~Has(log, "submit")
    /\ stream = 0 /\ \A i \in StreamIds : pa[i] = "free"

\* ------------------------------------------------------------------------
\* C38: the microphone test's stream and the recording stream are never open at the
\* same time, whatever the order of start_mic_test, stop_mic_test, start_recording and
\* stop_recording.
C38_TestAndRecordingExclusive ==
  ~(/\ test_stream # 0 /\ pa[test_stream] # "free"
    /\ stream # 0 /\ pa[stream] # "free")

\* ------------------------------------------------------------------------
\* The release of process p has run to its end.
Released(p) == lock_pc[p] = "released"

\* The file at the path is the lock of another instance than p: that instance has
\* created it and holds the flock on it.
LockOfAnother(p) ==
  /\ lock_path # 0
  /\ \E q \in Procs \ {p} : LOCK_FILE[q] = lock_path /\ flocked[lock_path] = q

\* C39: releasing the lock is idempotent and touches the process's own lock only.
\* After _release_lock_file has run LOCK_FILE is None, so that cleanup_lock_file does
\* nothing; and the os.remove of a releasing process never removes a lock file that
\* another instance has created and locked since the unlock.
C39_ReleaseOwnLockOnly ==
  /\ [](\A p \in Procs : Released(p) => LOCK_FILE[p] = 0)
  /\ [][\A p \in Procs :
          /\ (At(p, "release_remove") /\ Released(p)') => ~LockOfAnother(p)
          /\ (Released(p) /\ ~Released(p)') => UNCHANGED <<lock_path, flocked>>]_vars
====
